---- MODULE Spec2Model ----
(* Model of github.com/go-coldbrew/errors/notifier (notifier.go):          *)
(* the notification dispatch engine, the panic recovery adapter and the    *)
(* trace identifier manager.                                               *)
EXTENDS Integers, Sequences, FiniteSets, TLC

(***************************************************************************)
(* Bounds                                                                  *)
(***************************************************************************)
MaxAux == 2
MaxReports == 2
MaxOps == 2
MaxTasks == 2

(***************************************************************************)
(* Strings that the code inspects character-wise (trace identifiers) are   *)
(* sequences of characters; the empty string is << >>.                     *)
(***************************************************************************)
Empty == << >>
Blank == << " " >>
IdA == << "A" >>
IdB == << "B" >>
IdS == << "S" >>
Strs == {Empty, Blank, IdA, IdB}

RECURSIVE TrimLeft(_)
TrimLeft(s) ==
  IF s = << >> THEN << >>
  ELSE IF Head(s) = " " THEN TrimLeft(Tail(s)) ELSE s

RECURSIVE TrimRight(_)
TrimRight(s) ==
  IF s = << >> THEN << >>
  ELSE IF s[Len(s)] = " " THEN TrimRight(SubSeq(s, 1, Len(s) - 1)) ELSE s

\* strings.TrimSpace
TrimSpace(s) == TrimRight(TrimLeft(s))

\* strings.Join(id, ",")
RECURSIVE Join(_)
Join(l) ==
  IF l = << >> THEN << >>
  ELSE IF Len(l) = 1 THEN l[1]
  ELSE l[1] \o << "," >> \o Join(Tail(l))

\* uuid.NewRandom().String(): the n-th identifier generated by the process
NewUUID(n) == << "u", ToString(n) >>

(***************************************************************************)
(* Carriers (context.Context).  A context is an immutable value; what it   *)
(* may carry is a pointer to an option store, a pointer to a log-field     *)
(* store, inbound gRPC metadata and an opentracing span.  Store 0 stands   *)
(* for "no store attached to this context".                                *)
(***************************************************************************)
NoHdr == [present |-> FALSE, vals |-> << >>]
Hdr(l) == [present |-> TRUE, vals |-> l]
Hdrs == {NoHdr, Hdr(<< IdA >>), Hdr(<< Blank >>), Hdr(<< IdB, IdA >>)}
NoMD == [ok |-> FALSE, pre |-> NoHdr, bare |-> NoHdr]
MDs == {NoMD} \cup [ok : {TRUE}, pre : Hdrs, bare : Hdrs]
NoSpan == [ok |-> FALSE, trace |-> Empty]
Spans == {NoSpan} \cup [ok : {TRUE}, trace : {Empty, Blank, IdS}]

NotFound == [found |-> FALSE, str |-> TRUE, val |-> Empty]
Found(v) == [found |-> TRUE, str |-> TRUE, val |-> v]
\* a value stored under "trace" that is not a string
FoundOther == [found |-> TRUE, str |-> FALSE, val |-> Empty]

VARIABLES
  airbrake,       \* airbrake != nil
  rollbarInited,
  sentryInited,
  shouldNotify,   \* the should-notify flag of every error with that capability
  optStore,       \* heap of option stores: the value under key tracerID
  logStore,       \* heap of log-field stores: the value under key "trace"
  uuids,          \* number of identifiers generated so far
  cum,            \* reports submitted so far, per error and backend
  last,           \* the last completed call: inputs, result and effects
  cur,            \* the carrier the trace operations are applied to
  ops,            \* number of trace operations applied
  tr,             \* the last trace operation: inputs and result
  tasks           \* concurrent notifications in flight

vars == << airbrake, rollbarInited, sentryInited, shouldNotify, optStore,
           logStore, uuids, cum, last, cur, ops, tr, tasks >>

tracerID == "tracerId"

\* options.FromContext(ctx): the store the context points to, 0 for nil
OptionsFromContext(ctx) == ctx.opt

\* loggers.FromContext(ctx)
LoggersFromContext(ctx) == ctx.log

\* options.AddToOptions(ctx, tracerID, v): writes into the store the
\* context points to; a context that has none gets a new store, which is
\* reachable only from the returned context.
AddToOptions(ctx, v, os) ==
  IF OptionsFromContext(ctx) # 0
  THEN [ctx |-> ctx,
        os |-> [os EXCEPT ![ctx.opt] = Found(v)]]
  ELSE [ctx |-> [ctx EXCEPT !.opt = Len(os) + 1],
        os |-> Append(os, Found(v))]

\* loggers.AddToLogContext(ctx, "trace", v)
AddToLogContext(ctx, v, ls) ==
  IF LoggersFromContext(ctx) # 0
  THEN [ctx |-> ctx,
        ls |-> [ls EXCEPT ![ctx.log] = Found(v)]]
  ELSE [ctx |-> [ctx EXCEPT !.log = Len(ls) + 1],
        ls |-> Append(ls, Found(v))]

\* GetTraceId: the value returned, the branch that answered and the option
\* heap after the call (the context returned by AddToOptions is dropped).
GetTraceId(ctx, os, ls) ==
  IF OptionsFromContext(ctx) # 0 /\ os[ctx.opt].found
  THEN [res |-> os[ctx.opt].val, path |-> "option", os |-> os]
  ELSE IF LoggersFromContext(ctx) # 0 /\ ls[ctx.log].found /\ ls[ctx.log].str
  THEN [res |-> ls[ctx.log].val, path |-> "field",
        os |-> IF OptionsFromContext(ctx) # 0
               THEN AddToOptions(ctx, ls[ctx.log].val, os).os
               ELSE os]
  ELSE [res |-> Empty, path |-> "none", os |-> os]

\* SetTraceId lines 409-415: the identifier taken from the inbound metadata
HeaderTraceID(ctx) ==
  IF ctx.md.ok
  THEN IF ctx.md.pre.present THEN Join(ctx.md.pre.vals)
       ELSE IF ctx.md.bare.present THEN Join(ctx.md.bare.vals)
       ELSE Empty
  ELSE Empty

\* the baggage item taken whenever there is a span
SpanTraceIDAlways(ctx, traceID) ==
  IF ctx.span.ok THEN ctx.span.trace ELSE traceID

\* SetTraceId lines 416-418
SpanTraceID(ctx, traceID) ==
  IF ctx.span.ok /\ TrimSpace(traceID) = Empty THEN ctx.span.trace ELSE traceID

\* SetTraceId: the returned context, the heaps and the number of
\* identifiers generated
SetTraceId(ctx, os, ls, n) ==
  LET g == GetTraceId(ctx, os, ls) IN
  IF g.res # Empty
  THEN [ctx |-> ctx, os |-> g.os, ls |-> ls, n |-> n, minted |-> FALSE]
  ELSE
    LET t1 == SpanTraceID(ctx, HeaderTraceID(ctx))
        gen == TrimSpace(t1) = Empty
        traceID == IF gen THEN NewUUID(n + 1) ELSE t1
        a == AddToLogContext(ctx, traceID, ls)
        b == AddToOptions(a.ctx, traceID, g.os)
    IN [ctx |-> b.ctx, os |-> b.os, ls |-> a.ls,
        n |-> IF gen THEN n + 1 ELSE n, minted |-> gen]

\* UpdateTraceId
UpdateTraceId(ctx, traceID, os, ls, n) ==
  IF traceID = Empty
  THEN SetTraceId(ctx, os, ls, n)
  ELSE
    LET a == AddToLogContext(ctx, traceID, ls)
        b == AddToOptions(a.ctx, traceID, os)
    IN [ctx |-> b.ctx, os |-> b.os, ls |-> a.ls, n |-> n, minted |-> FALSE]

(***************************************************************************)
(* Error values.  The stack-capturing error type lives in the errors       *)
(* package; the notifier uses it through ErrorExt (Cause, StackFrame,      *)
(* Callers) and NotifyExt (ShouldNotify, Notified).                        *)
(*   p1, p2  plain errors, without either capability                       *)
(*   w1      a stack-carrying error wrapping p1, with both capabilities    *)
(***************************************************************************)
NilErr == "nil"
Errs == {"p1", "p2", "w1"}
ErrorExtErrs == {"w1"}
NotifyExtErrs == {"w1"}

\* err.(errors.ErrorExt)
IsErrorExt(e) == e \in ErrorExtErrs
\* err.(errors.NotifyExt)
IsNotifyExt(e) == e \in NotifyExtErrs
\* ErrorExt.Cause(): the error at the bottom of the wrapped chain
Cause(e) == IF e = "w1" THEN "p1" ELSE NilErr
\* NotifyExt.ShouldNotify()
ShouldNotify(e, sn) == sn[e]
\* NotifyExt.Notified(status)
Notified(e, status, sn) == [sn EXCEPT ![e] = ~status]
\* errors.WrapWithSkip(err, msg, skip): a new stack-carrying error
WrapWithSkip(e, msg, skip) ==
  [stack |-> TRUE, of |-> e, msg |-> msg, skip |-> skip, new |-> TRUE]
\* errors.NewWithSkip(msg, skip)
NewWithSkip(msg, skip) ==
  [stack |-> TRUE, of |-> NilErr, msg |-> msg, skip |-> skip, new |-> TRUE]
\* an error that already carries its stack, used as it is
AsErrorExt(e) ==
  [stack |-> TRUE, of |-> e, msg |-> "", skip |-> 0, new |-> FALSE]

(***************************************************************************)
(* Auxiliary values (rawData ...interface{})                               *)
(***************************************************************************)
AuxErr(e) == [kind |-> "error", v |-> e]
AuxCtx(c) == [kind |-> "ctx", v |-> c]
TagsV == [kind |-> "tags", v |-> "k=v"]
DataV == [kind |-> "data", v |-> "d1"]
\* the nil interface value
NilV == [kind |-> "nil", v |-> "nil"]
AuxValues ==
  {AuxErr("p1"), AuxErr("w1"), AuxCtx("ctxB"), AuxCtx("ctxS"), TagsV, DataV, NilV}
RawDatas == UNION {[1..n -> AuxValues] : n \in 0..MaxAux}

\* the carriers callers pass: ctxB has an option store and a log-field
\* store, ctxS has an active span and no store; Background has nothing
Background == [opt |-> 0, log |-> 0, md |-> NoMD, span |-> NoSpan]
Carrier(c) ==
  IF c = "ctxB" THEN [opt |-> 1, log |-> 1, md |-> NoMD, span |-> NoSpan]
  ELSE IF c = "ctxS" THEN [opt |-> 0, log |-> 0, md |-> NoMD,
                           span |-> [ok |-> TRUE, trace |-> IdS]]
  ELSE Background

\* reflect.TypeOf(data).String()
TypeName(d) ==
  IF d.kind = "error"
  THEN (IF IsErrorExt(d.v) THEN "*errors.customError" ELSE "*errors.errorString")
  ELSE IF d.kind = "tags" THEN "notifier.Tags"
  ELSE "string"

Backends == {"airbrake", "rollbar", "sentry"}
Levels == {"critical", "warning"}
Skips == {0, 1}

\* an entry of the extra-data map: the key, and the auxiliary value or the
\* identifier stored under it
NoAux == [kind |-> "none", v |-> "none"]
Extra(key, aux, id) == [key |-> key, aux |-> aux, id |-> id]

\* parseRawData: panics when reflect.TypeOf(data) is nil, which is the
\* case of a nil interface value
parseRawData(ctx, list, ls) ==
  LET keyed == {i \in 1..Len(list) : list[i].kind \notin {"ctx", "tags"}}
      fields == IF LoggersFromContext(ctx) # 0 /\ ls[ctx.log].found
                THEN {Extra("trace", NoAux, ls[ctx.log].val)} ELSE {}
  IN [panicked |-> \E i \in keyed : list[i].kind = "nil",
      extraData |-> {Extra(TypeName(list[i]) \o ToString(i - 1), list[i], Empty)
                       : i \in keyed} \cup fields,
      tagData |-> SelectSeq(list, LAMBDA d : d.kind = "tags")]

\* the self-reference check without the look at the cause
IsSelfReferenceIdentityOnly(err, data) ==
  data.kind = "error" /\ data.v = err

\* doNotify lines 215-222: the auxiliary value is err, or has err as cause
IsSelfReference(err, data) ==
  /\ data.kind = "error"
  /\ \/ data.v = err
     \/ IsErrorExt(data.v) /\ Cause(data.v) = err

\* doNotify lines 211-226: what is kept of the auxiliary list
KeptList(rawData) == SelectSeq(rawData, LAMBDA d : d.kind # "error")

\* doNotify lines 229-242: the first carrier of the list, the trace id
\* found on it and the option heap after the lookup
TraceFromList(list, os, ls) ==
  LET cs == SelectSeq(list, LAMBDA d : d.kind = "ctx") IN
  IF cs = << >>
  THEN [ctx |-> Background, traceID |-> Empty, os |-> os]
  ELSE
    LET c == Carrier(cs[1].v)
        t0 == IF c.span.ok THEN c.span.trace ELSE Empty
        g == GetTraceId(c, os, ls)
    IN IF TrimSpace(t0) = Empty
       THEN [ctx |-> c, traceID |-> g.res, os |-> g.os]
       ELSE [ctx |-> c, traceID |-> t0, os |-> os]

\* doNotify lines 276-281
SentryLevel(level) ==
  IF level = "critical" THEN "FATAL"
  ELSE IF level = "warning" THEN "WARNING"
  ELSE "ERROR"

Quiet(ret, os) ==
  [ret |-> ret, panicked |-> FALSE, sent |-> [b \in Backends |-> << >>],
   logs |-> << >>, os |-> os]

\* doNotify: the value returned (or the panic), the reports submitted to
\* each backend, the log records emitted and the option heap
doNotify(err, skip, level, rawData, os, ls) ==
  IF err = NilErr THEN Quiet(NilErr, os)
  ELSE IF \E i \in 1..Len(rawData) : IsSelfReference(err, rawData[i])
  THEN Quiet(err, os)
  ELSE
    LET errWithStack == IF IsErrorExt(err) THEN AsErrorExt(err)
                        ELSE WrapWithSkip(err, "", skip + 1)
        list == KeptList(rawData)
        t == TraceFromList(list, os, ls)
        p == parseRawData(t.ctx, list, ls)
        ctxData == (IF Len(list) > 0 THEN p.extraData ELSE {})
                   \cup (IF t.traceID # Empty
                         THEN {Extra("traceId", NoAux, t.traceID)} ELSE {})
    IN IF p.panicked
       THEN [ret |-> NilErr, panicked |-> TRUE,
             sent |-> [b \in Backends |-> << >>], logs |-> << >>, os |-> t.os]
       ELSE
         [ret |-> err, panicked |-> FALSE,
          sent |->
            [b \in Backends |->
               IF b = "airbrake" /\ airbrake
               THEN << [err |-> errWithStack, level |-> "", extra |-> ctxData,
                        tags |-> << >>] >>
               ELSE IF b = "rollbar" /\ rollbarInited
               THEN << [err |-> errWithStack, level |-> level,
                        extra |-> ctxData \cup {Extra("server", NoAux, Empty)},
                        tags |-> << >>] >>
               ELSE IF b = "sentry" /\ sentryInited
               THEN << [err |-> errWithStack, level |-> SentryLevel(level),
                        extra |-> p.extraData, tags |-> p.tagData] >>
               ELSE << >>],
          logs |-> << [err |-> errWithStack, skip |-> skip + 1] >>,
          os |-> t.os]

\* the error is not marked
MarkNotifiedSkipped(err, sn) == sn

\* NotifyWithLevelAndSkip line 194: n.Notified(true)
MarkNotified(err, sn) == Notified(err, TRUE, sn)

\* the gate left out
SuppressedNever(err, sn) == FALSE

\* NotifyWithLevelAndSkip lines 190-193: the should-notify gate
Suppressed(err, sn) == IsNotifyExt(err) /\ ~ShouldNotify(err, sn)

\* NotifyWithLevelAndSkip: outcome of one call made in the current state
NotifyOutcome(err, skip, level, rawData) ==
  IF err = NilErr
  THEN [out |-> Quiet(NilErr, optStore), sn |-> shouldNotify, marks |-> 0]
  ELSE IF Suppressed(err, shouldNotify)
  THEN [out |-> Quiet(err, optStore), sn |-> shouldNotify, marks |-> 0]
  ELSE [out |-> doNotify(err, skip, level, rawData, optStore, logStore),
        sn |-> IF IsNotifyExt(err) THEN MarkNotified(err, shouldNotify)
               ELSE shouldNotify,
        marks |-> IF IsNotifyExt(err) THEN 1 ELSE 0]

(***************************************************************************)
(* NotifyOnPanic, run as a deferred call while the value pv is panicking   *)
(* (kind "none": the scope returned normally).                             *)
(***************************************************************************)
PanicVals ==
  {[kind |-> "none", v |-> ""], [kind |-> "nil", v |-> ""],
   [kind |-> "error", v |-> "p1"], [kind |-> "string", v |-> "boom"],
   [kind |-> "other", v |-> "42"]}
\* what recover() returns for panic(nil): nil when the program is built
\* with the semantics of the go 1.15 this module declares, a
\* *runtime.PanicNilError (an error) when built with those of go 1.21
Builds == {"go1.15", "go1.21"}
NoError == [stack |-> FALSE, of |-> NilErr, msg |-> "", skip |-> 0, new |-> FALSE]
RuntimeError ==
  [stack |-> FALSE, of |-> NilErr, msg |-> "runtime error", skip |-> 0, new |-> FALSE]

\* NotifyOnPanic lines 338-343: the first carrier of rawData
FirstCarrier(rawData) ==
  LET cs == SelectSeq(rawData, LAMBDA d : d.kind = "ctx") IN
  IF cs = << >> THEN Background ELSE Carrier(cs[1].v)

\* NotifyOnPanic lines 345-353: the stack-captured error made of the
\* recovered value
PanicError(pv) ==
  IF pv.kind = "error" THEN WrapWithSkip(pv.v, "PANIC", 1)
  ELSE IF pv.kind = "nil" THEN WrapWithSkip("PanicNilError", "PANIC", 1)
  ELSE IF pv.kind = "string" THEN NewWithSkip("PANIC: " \o pv.v, 1)
  ELSE NewWithSkip("Panic", 1)

\* gobrake's Notifier.NotifyOnPanic, deferred at line 334: reports the
\* value that is panicking when NotifyOnPanic unwinds, and panics again
AirbrakeOnPanic(panicking, carried) ==
  IF airbrake /\ panicking
  THEN << [err |-> carried, level |-> "critical", extra |-> {}, tags |-> << >>] >>
  ELSE << >>

\* NotifyOnPanic: whether a panic propagates when it is done, the value it
\* carries, and the reports submitted
PanicOutcome(rawData, pv, build) ==
  LET recovered == pv.kind # "none" /\ ~(pv.kind = "nil" /\ build = "go1.15") IN
  IF ~recovered
  THEN [panicking |-> FALSE, carried |-> NoError,
        sent |-> [b \in Backends |-> << >>]]
  ELSE
    LET e == PanicError(pv)
        p == parseRawData(FirstCarrier(rawData), rawData, logStore)
    IN IF p.panicked
       THEN [panicking |-> TRUE, carried |-> RuntimeError,
             sent |-> [b \in Backends |->
                         IF b = "airbrake" THEN AirbrakeOnPanic(TRUE, RuntimeError)
                         ELSE << >>]]
       ELSE [panicking |-> TRUE, carried |-> e,
             sent |->
               [b \in Backends |->
                  IF b = "airbrake" THEN AirbrakeOnPanic(TRUE, e)
                  ELSE IF b = "rollbar" /\ rollbarInited
                  THEN << [err |-> e, level |-> "critical",
                           extra |-> {Extra("panic", NoAux, Empty)},
                           tags |-> << >>] >>
                  ELSE IF b = "sentry" /\ sentryInited
                  THEN << [err |-> e, level |-> "FATAL",
                           extra |-> p.extraData, tags |-> p.tagData] >>
                  ELSE << >>]]

(***************************************************************************)
(* The dispatch engine called sequentially: every call runs to completion  *)
(* before the next one starts.                                             *)
(***************************************************************************)
NoCall == [op |-> "none"]
traceVars == << cur, ops, tr, uuids, logStore >>
Config == [airbrake |-> airbrake, rollbar |-> rollbarInited, sentry |-> sentryInited]
NoPanic == [kind |-> "none", v |-> ""]

Init ==
  /\ airbrake = FALSE /\ rollbarInited = FALSE /\ sentryInited = FALSE
  /\ shouldNotify = [e \in NotifyExtErrs |-> TRUE]
  /\ optStore = << NotFound >>
  /\ logStore = << Found(IdB) >>
  /\ uuids = 0
  /\ cum = [e \in NotifyExtErrs |-> [b \in Backends |-> 0]]
  /\ last = NoCall
  /\ cur = Background
  /\ ops = 0
  /\ tr = NoCall
  /\ tasks = << >>

InitAirbrake ==
  /\ last = NoCall
  /\ airbrake' = TRUE
  /\ UNCHANGED << rollbarInited, sentryInited, shouldNotify, optStore, cum,
                  last, tasks >>
  /\ UNCHANGED traceVars

InitRollbar ==
  /\ last = NoCall
  /\ rollbarInited' = TRUE
  /\ UNCHANGED << airbrake, sentryInited, shouldNotify, optStore, cum, last,
                  tasks >>
  /\ UNCHANGED traceVars

InitSentry ==
  /\ last = NoCall
  /\ sentryInited' = TRUE
  /\ UNCHANGED << airbrake, rollbarInited, shouldNotify, optStore, cum, last,
                  tasks >>
  /\ UNCHANGED traceVars

\* reports of one call added to the running count of an error
Count(c, err, sent) ==
  IF err \in DOMAIN c
  THEN [c EXCEPT ![err] = [b \in Backends |-> c[err][b] + Len(sent[b])]]
  ELSE c

Call(op, err, skip, level, rawData) ==
  /\ err \in NotifyExtErrs => \A b \in Backends : cum[err][b] < MaxReports
  /\ LET o == NotifyOutcome(err, skip, level, rawData) IN
       /\ shouldNotify' = o.sn
       /\ optStore' = o.out.os
       /\ cum' = Count(cum, err, o.out.sent)
       /\ last' = [op |-> op, err |-> err, skip |-> skip, level |-> level,
                   rawData |-> rawData, ret |-> o.out.ret,
                   panicked |-> o.out.panicked, sent |-> o.out.sent,
                   logs |-> o.out.logs, marks |-> o.marks,
                   suppressed |-> Suppressed(err, shouldNotify),
                   snFalse |-> IsNotifyExt(err) /\ ~shouldNotify[err],
                   cfg |-> Config, pv |-> NoPanic, carried |-> NoError]
  /\ UNCHANGED << airbrake, rollbarInited, sentryInited, tasks >>
  /\ UNCHANGED traceVars

Notify ==
  /\ last = NoCall
  /\ \E err \in Errs \cup {NilErr}, rawData \in RawDatas :
       Call("Notify", err, 2, "error", rawData)

NotifyWithLevel ==
  /\ last = NoCall
  /\ \E err \in Errs \cup {NilErr}, level \in Levels, rawData \in RawDatas :
       Call("NotifyWithLevel", err, 2, level, rawData)

NotifyWithLevelAndSkip ==
  /\ last = NoCall
  /\ \E err \in Errs \cup {NilErr}, skip \in Skips, level \in Levels,
        rawData \in RawDatas :
       Call("NotifyWithLevelAndSkip", err, skip, level, rawData)

NotifyOnPanic ==
  /\ last = NoCall
  /\ \E rawData \in RawDatas, pv \in PanicVals, build \in Builds :
    LET o == PanicOutcome(rawData, pv, build) IN
      /\ last' = [op |-> "NotifyOnPanic", err |-> NilErr, skip |-> 0,
                  level |-> "critical", rawData |-> rawData, ret |-> NilErr,
                  panicked |-> o.panicking, sent |-> o.sent, logs |-> << >>,
                  marks |-> 0, suppressed |-> FALSE, snFalse |-> FALSE,
                  cfg |-> Config, pv |-> pv, carried |-> o.carried]
      /\ UNCHANGED << airbrake, rollbarInited, sentryInited, shouldNotify,
                      optStore, cum, tasks >>
      /\ UNCHANGED traceVars

\* the caller has taken the result of the call and goes on
Return ==
  /\ last # NoCall
  /\ last' = NoCall
  /\ UNCHANGED << airbrake, rollbarInited, sentryInited, shouldNotify,
                  optStore, cum, tasks >>
  /\ UNCHANGED traceVars

Next ==
  \/ InitAirbrake
  \/ InitRollbar
  \/ InitSentry
  \/ Notify
  \/ NotifyWithLevel
  \/ NotifyWithLevelAndSkip
  \/ NotifyOnPanic
  \/ Return

Spec == Init /\ [][Next]_vars

(***************************************************************************)
(* Properties of the dispatch engine and of the panic recovery adapter     *)
(***************************************************************************)
IsNotifyCall == last.op \in {"Notify", "NotifyWithLevel", "NotifyWithLevelAndSkip"}
AllEnabled == [airbrake |-> TRUE, rollbar |-> TRUE, sentry |-> TRUE]
\* the auxiliary list of the last call holds err itself, or an error whose
\* cause is err
SelfReferenceAt(i) ==
  /\ last.rawData[i].kind = "error"
  /\ \/ last.rawData[i].v = last.err
     \/ Cause(last.rawData[i].v) = last.err
HasSelfReference == \E i \in 1..Len(last.rawData) : SelfReferenceAt(i)
NothingSent == \A b \in Backends : last.sent[b] = << >>
\* the last call is one that the claims expect to be dispatched
Dispatched ==
  IsNotifyCall /\ last.err # NilErr /\ ~last.snFalse /\ ~HasSelfReference

\* C1: every Notify, NotifyWithLevel and NotifyWithLevelAndSkip call
\* returns, and returns the err it was given (nil for nil), whatever the
\* skip, the level and the auxiliary list.
C1_ReturnsErr ==
  IsNotifyCall => ~last.panicked /\ last.ret = last.err

\* C2: a call with a nil err, or with an err whose ShouldNotify() is
\* false, submits nothing to any backend, emits no log record and does not
\* call Notified.
C2_NilOrSuppressedIsSilent ==
  IsNotifyCall /\ (last.err = NilErr \/ last.snFalse) =>
    NothingSent /\ last.logs = << >> /\ last.marks = 0

\* C2 witness: a call on an error whose ShouldNotify() is false, with an
\* auxiliary list, while every backend is enabled
C2_Witness ==
  /\ IsNotifyCall /\ last.snFalse
  /\ last.cfg = AllEnabled
  /\ Len(last.rawData) > 0
  /\ last.ret = last.err

\* C3: a call whose auxiliary list holds err itself, or an error whose
\* cause is err, at any position, returns err and submits nothing to any
\* backend, whatever backends are enabled.
C3_SelfReferenceAborts ==
  IsNotifyCall /\ last.err # NilErr /\ HasSelfReference =>
    ~last.panicked /\ last.ret = last.err /\ NothingSent

\* C3 witness: Notify(p1, data, wrap(p1)) with every backend enabled
C3_Witness ==
  /\ IsNotifyCall /\ last.err = "p1"
  /\ last.cfg = AllEnabled
  /\ Len(last.rawData) = 2
  /\ last.rawData[1] = DataV
  /\ last.rawData[2] = AuxErr("w1")
  /\ last.ret = "p1"

\* C4: over any sequence of sequential calls, every backend receives at
\* most one report for an error that has the should-notify capability.
C4_AtMostOneReport ==
  \A e \in NotifyExtErrs : \A b \in Backends : cum[e][b] <= 1

\* C4 witness: a further call on an error that was reported to every
\* backend and marked notified
C4_Witness ==
  /\ IsNotifyCall /\ last.err = "w1" /\ last.snFalse
  /\ last.cfg = AllEnabled
  /\ \A b \in Backends : cum["w1"][b] = 1

\* C5: when the guarded scope panics with any value, a panic still
\* propagates after NotifyOnPanic and carries a stack-captured error (with
\* message "PANIC: " + v for a string v); when the scope does not panic,
\* NotifyOnPanic raises no panic and sends no rollbar or sentry report.
C5_PanicPreserved ==
  last.op = "NotifyOnPanic" =>
    /\ (last.pv.kind # "none" =>
          /\ last.panicked
          /\ last.carried.stack
          /\ (last.pv.kind = "string" =>
                last.carried.msg = "PANIC: " \o last.pv.v))
    /\ (last.pv.kind = "none" =>
          /\ ~last.panicked
          /\ last.sent["rollbar"] = << >>
          /\ last.sent["sentry"] = << >>)

\* C8: a dispatched call submits exactly one report to every enabled
\* backend, none to a backend that is not initialized, and emits exactly
\* one log record.
C8_OneReportPerBackend ==
  Dispatched =>
    /\ \A b \in Backends : Len(last.sent[b]) = IF last.cfg[b] THEN 1 ELSE 0
    /\ Len(last.logs) = 1

\* C9: in a dispatched call every auxiliary value that is an error, and
\* is neither err nor has err as its cause, is kept for context
\* extraction: it appears in the extra data of the report of every
\* enabled backend.
C9_AuxiliaryErrorsKept ==
  Dispatched =>
    \A i \in 1..Len(last.rawData) :
      last.rawData[i].kind = "error" =>
        \A b \in Backends :
          last.cfg[b] =>
            /\ Len(last.sent[b]) = 1
            /\ \E x \in last.sent[b][1].extra : x.aux = last.rawData[i]

(***************************************************************************)
(* Concurrent notifications.  Every task is a goroutine running            *)
(* Notify(err, list...): it reads ShouldNotify ("check"), writes           *)
(* Notified(true) ("mark") and runs doNotify ("dispatch"); nothing orders  *)
(* the steps of one task with those of another.                            *)
(***************************************************************************)
ConcRawDatas == {r \in RawDatas : Len(r) <= 1}

\* NotifyWithExclude lines 310-317: the check it makes on an auxiliary
\* value before it spawns the notification
ExcludeSelfReference(err, data) ==
  /\ data.kind = "error"
  /\ IsErrorExt(data.v)
  /\ (Cause(data.v) = err \/ data.v = err)

Task(via, err, list) == [via |-> via, err |-> err, list |-> list, pc |-> "check"]

\* a goroutine of the program calls Notify(err, rawData...)
GoNotify ==
  /\ Len(tasks) < MaxTasks
  /\ \E err \in Errs \cup {NilErr}, rawData \in ConcRawDatas :
       tasks' = Append(tasks, Task("Notify", err, rawData))
  /\ UNCHANGED << airbrake, rollbarInited, sentryInited, shouldNotify,
                  optStore, cum, last >>
  /\ UNCHANGED traceVars

\* NotifyWithExclude: returns err at once; unless err is nil or the list
\* refers to err, it has started "go Notify(err, list...)"
NotifyWithExclude ==
  /\ Len(tasks) < MaxTasks
  /\ \E err \in Errs \cup {NilErr}, rawData \in ConcRawDatas :
       tasks' =
         IF \/ err = NilErr
            \/ \E i \in 1..Len(rawData) : ExcludeSelfReference(err, rawData[i])
         THEN tasks
         ELSE Append(tasks, Task("NotifyWithExclude", err, KeptList(rawData)))
  /\ UNCHANGED << airbrake, rollbarInited, sentryInited, shouldNotify,
                  optStore, cum, last >>
  /\ UNCHANGED traceVars

\* NotifyWithLevelAndSkip lines 186-193 in task i
Check(i) ==
  /\ tasks[i].pc = "check"
  /\ tasks' = [tasks EXCEPT ![i].pc =
                 IF tasks[i].err = NilErr \/ Suppressed(tasks[i].err, shouldNotify)
                 THEN "done"
                 ELSE IF IsNotifyExt(tasks[i].err) THEN "mark"
                 ELSE "dispatch"]
  /\ UNCHANGED << airbrake, rollbarInited, sentryInited, shouldNotify,
                  optStore, cum, last >>
  /\ UNCHANGED traceVars

\* NotifyWithLevelAndSkip line 194 in task i
Mark(i) ==
  /\ tasks[i].pc = "mark"
  /\ shouldNotify' = MarkNotified(tasks[i].err, shouldNotify)
  /\ tasks' = [tasks EXCEPT ![i].pc = "dispatch"]
  /\ UNCHANGED << airbrake, rollbarInited, sentryInited, optStore, cum, last >>
  /\ UNCHANGED traceVars

\* NotifyWithLevelAndSkip line 196 in task i
Dispatch(i) ==
  /\ tasks[i].pc = "dispatch"
  /\ LET o == doNotify(tasks[i].err, 2, "error", tasks[i].list, optStore, logStore) IN
       /\ optStore' = o.os
       /\ cum' = Count(cum, tasks[i].err, o.sent)
  /\ tasks' = [tasks EXCEPT ![i].pc = "done"]
  /\ UNCHANGED << airbrake, rollbarInited, sentryInited, shouldNotify, last >>
  /\ UNCHANGED traceVars

ConcNext ==
  \/ InitAirbrake
  \/ InitRollbar
  \/ InitSentry
  \/ GoNotify
  \/ NotifyWithExclude
  \/ \E i \in 1..Len(tasks) : Check(i)
  \/ \E i \in 1..Len(tasks) : Mark(i)
  \/ \E i \in 1..Len(tasks) : Dispatch(i)

SpecConc == Init /\ [][ConcNext]_vars

\* C10: under every interleaving of concurrent notifications of the same
\* error, no backend has received more than one report for an error that
\* has the should-notify capability.
C10_AtMostOneReportConcurrently ==
  \A e \in NotifyExtErrs : ~(\E b \in Backends : cum[e][b] > 1)

(***************************************************************************)
(* Trace identifier manager: GetTraceId, SetTraceId and UpdateTraceId      *)
(* applied, in any order, to a carrier the caller keeps threading through. *)
(***************************************************************************)
dispatchVars == << airbrake, rollbarInited, sentryInited, shouldNotify, cum,
                   last, tasks >>

TraceInit ==
  /\ airbrake = FALSE /\ rollbarInited = FALSE /\ sentryInited = FALSE
  /\ shouldNotify = << >>
  /\ cum = << >>
  /\ last = NoCall
  /\ tasks = << >>
  /\ optStore \in {<< o >> : o \in {NotFound, Found(Empty), Found(IdA)}}
  /\ logStore \in {<< l >> : l \in {NotFound, FoundOther, Found(IdB), Found(Blank)}}
  /\ cur \in [opt : {0, 1}, log : {0, 1}, md : MDs, span : Spans]
  /\ uuids = 0
  /\ ops = 0
  /\ tr = NoCall

TraceGet ==
  /\ ops < MaxOps
  /\ LET g == GetTraceId(cur, optStore, logStore) IN
       /\ optStore' = g.os
       /\ tr' = [op |-> "GetTraceId", ctx |-> cur, id |-> Empty,
                 before |-> g.res, path |-> g.path, res |-> g.res,
                 minted |-> FALSE, os0 |-> optStore, ls0 |-> logStore,
                 n0 |-> uuids]
  /\ ops' = ops + 1
  /\ UNCHANGED << cur, logStore, uuids >>
  /\ UNCHANGED dispatchVars

TraceSet ==
  /\ ops < MaxOps
  /\ LET g == GetTraceId(cur, optStore, logStore)
         s == SetTraceId(cur, optStore, logStore, uuids) IN
       /\ cur' = s.ctx
       /\ optStore' = s.os
       /\ logStore' = s.ls
       /\ uuids' = s.n
       /\ tr' = [op |-> "SetTraceId", ctx |-> cur, id |-> Empty,
                 before |-> g.res, path |-> g.path, res |-> Empty,
                 minted |-> s.minted, os0 |-> optStore, ls0 |-> logStore,
                 n0 |-> uuids]
  /\ ops' = ops + 1
  /\ UNCHANGED dispatchVars

TraceUpdate ==
  /\ ops < MaxOps
  /\ \E traceID \in Strs :
       LET g == GetTraceId(cur, optStore, logStore)
           s == UpdateTraceId(cur, traceID, optStore, logStore, uuids) IN
         /\ cur' = s.ctx
         /\ optStore' = s.os
         /\ logStore' = s.ls
         /\ uuids' = s.n
         /\ tr' = [op |-> "UpdateTraceId", ctx |-> cur, id |-> traceID,
                   before |-> g.res, path |-> g.path, res |-> Empty,
                   minted |-> s.minted, os0 |-> optStore, ls0 |-> logStore,
                 n0 |-> uuids]
  /\ ops' = ops + 1
  /\ UNCHANGED dispatchVars

TraceNext == TraceGet \/ TraceSet \/ TraceUpdate

SpecTrace == TraceInit /\ [][TraceNext]_vars

(***************************************************************************)
(* Properties of the trace identifier manager                              *)
(***************************************************************************)
\* what the carrier of the last operation held before the operation
OptionBefore == IF tr.ctx.opt # 0 THEN tr.os0[tr.ctx.opt] ELSE NotFound
FieldBefore == IF tr.ctx.log # 0 THEN tr.ls0[tr.ctx.log] ELSE NotFound
HasOptionId == OptionBefore.found
HasFieldId == FieldBefore.found /\ FieldBefore.str
\* what a GetTraceId call on the current carrier returns now
IdNow == GetTraceId(cur, optStore, logStore).res

RECURSIVE FirstNonBlank(_)
FirstNonBlank(l) ==
  IF l = << >> THEN Empty
  ELSE IF TrimSpace(Head(l)) # Empty THEN Head(l) ELSE FirstNonBlank(Tail(l))

PrefixedHeader ==
  IF tr.ctx.md.ok /\ tr.ctx.md.pre.present THEN Join(tr.ctx.md.pre.vals) ELSE Empty
BareHeader ==
  IF tr.ctx.md.ok /\ tr.ctx.md.bare.present THEN Join(tr.ctx.md.bare.vals) ELSE Empty
Baggage == IF tr.ctx.span.ok THEN tr.ctx.span.trace ELSE Empty
FreshId == NewUUID(tr.n0 + 1)

\* C6: GetTraceId returns the option-store id when both stores hold one;
\* with only a field-store id it returns that id and leaves the option
\* store of the same carrier populated, so that the next GetTraceId on the
\* carrier is answered from the option store; with neither it returns the
\* empty string and generates nothing.
C6_ResolutionPrecedence ==
  tr.op = "GetTraceId" =>
    /\ (HasOptionId /\ HasFieldId => tr.res = OptionBefore.val)
    /\ (~HasOptionId /\ HasFieldId =>
          /\ tr.res = FieldBefore.val
          /\ GetTraceId(cur, optStore, logStore).path = "option")
    /\ (~HasOptionId /\ ~FieldBefore.found =>
          tr.res = Empty /\ uuids = tr.n0)

\* C7 as stated: after SetTraceId the carrier's id is non-empty, is the
\* old id when there was one, and otherwise the first non-blank of the
\* prefixed header, the bare header, the span baggage and a fresh id;
\* UpdateTraceId with a non-empty id makes that the carrier's id, and
\* with the empty id does what SetTraceId does.
C7_RoundTripFirstNonBlank ==
  /\ tr.op = "SetTraceId" =>
       /\ IdNow # Empty
       /\ (tr.before # Empty => IdNow = tr.before)
       /\ (tr.before = Empty =>
             IdNow = FirstNonBlank(<< PrefixedHeader, BareHeader, Baggage, FreshId >>))
  /\ tr.op = "UpdateTraceId" /\ tr.id # Empty => IdNow = tr.id
  /\ tr.op = "UpdateTraceId" /\ tr.id = Empty =>
       LET s == SetTraceId(tr.ctx, tr.os0, tr.ls0, tr.n0) IN
         cur = s.ctx /\ optStore = s.os /\ logStore = s.ls /\ uuids = s.n

\* C7 amended: the bare header is consulted only when the prefixed header
\* is absent from the metadata (a prefixed header that is present but
\* blank hides the bare one); the rest as stated.
C7_RoundTrip ==
  /\ tr.op = "SetTraceId" =>
       /\ IdNow # Empty
       /\ (tr.before # Empty => IdNow = tr.before)
       /\ (tr.before = Empty =>
             IdNow = FirstNonBlank(<<
               IF tr.ctx.md.ok /\ tr.ctx.md.pre.present
               THEN PrefixedHeader ELSE BareHeader,
               Baggage, FreshId >>))
  /\ tr.op = "UpdateTraceId" /\ tr.id # Empty => IdNow = tr.id
  /\ tr.op = "UpdateTraceId" /\ tr.id = Empty =>
       LET s == SetTraceId(tr.ctx, tr.os0, tr.ls0, tr.n0) IN
         cur = s.ctx /\ optStore = s.os /\ logStore = s.ls /\ uuids = s.n

\* C7 witness: SetTraceId ran on a carrier without an id whose prefixed
\* header is present but blank while the bare header holds an id
C7_Witness ==
  /\ tr.op = "SetTraceId"
  /\ tr.before = Empty
  /\ tr.ctx.md.ok /\ tr.ctx.md.pre.present
  /\ TrimSpace(PrefixedHeader) = Empty
  /\ TrimSpace(BareHeader) # Empty
  /\ IdNow # Empty

====
